---- MODULE Spec2Model ----
(***************************************************************************)
(* Space Opera Data Trawler (analyze_space_opera.py).                      *)
(*                                                                         *)
(* Python strings are modelled as sequences of one-character strings, so   *)
(* that lower(), "in", replace(), translate() and strip() are computed     *)
(* character by character as CPython computes them.  A book (a JSON        *)
(* object of the API response) is a function whose DOMAIN is the set of    *)
(* keys the object carries, so that dict.get() with a default is modelled  *)
(* as it behaves on a missing key.                                         *)
(***************************************************************************)
EXTENDS Integers, Sequences, FiniteSets, TLC

VARIABLES
    pc,                  \* where main stands
    books,               \* the fetched docs
    cursor,              \* position of the running for loop in its list
    star_wars_books,
    other_books,
    subject_data,        \* the defaultdict of the running analyze_subjects
    star_wars_subjects,  \* results of the two analyze_subjects calls
    other_subjects,
    files,               \* the files written: filename -> chart
    stdout,              \* the lines main and create_bar_chart print
    arg_subject,         \* a subject tag handed to the filter on its own
    ret_removed,         \* what should_remove_subject returned for it
    ret_filtered,        \* what filter_subjects returned for a book carrying it
    fpc                  \* where that lone use of the filter stands

vars ==
    <<pc, books, cursor, star_wars_books, other_books, subject_data,
      star_wars_subjects, other_subjects, files, stdout,
      arg_subject, ret_removed, ret_filtered, fpc>>

filter_vars ==
    <<arg_subject, ret_removed, ret_filtered, fpc>>

main_vars ==
    <<pc, books, cursor, star_wars_books, other_books, subject_data,
      star_wars_subjects, other_subjects, files, stdout>>


----------------------------------------------------------------------------
(* String literals of the source and the sample texts of the inputs.       *)

\* "star wars"
STAR_WARS_KEYWORD ==
    <<"s","t","a","r"," ","w","a","r","s">>

\* "(fictitious character)"
FictitiousCharacterMarker ==
    <<"(","f","i","c","t","i","t","i","o","u","s"," ","c","h","a","r","a",
      "c","t","e","r",")">>

\* "(imaginary place)"
ImaginaryPlaceMarker ==
    <<"(","i","m","a","g","i","n","a","r","y"," ","p","l","a","c","e",")">>

\* "nyt:"
NytMarker ==
    <<"n","y","t",":">>

\* "new york times"
NewYorkTimesMarker ==
    <<"n","e","w"," ","y","o","r","k"," ","t","i","m","e","s">>

\* "hugo award"
HugoAwardMarker ==
    <<"h","u","g","o"," ","a","w","a","r","d">>

\* "hugo_award"
HugoUnderscoreMarker ==
    <<"h","u","g","o","_","a","w","a","r","d">>

\* "award:"
AwardMarker ==
    <<"a","w","a","r","d",":">>

\* "Fiction in English, 1900- Texts"
GenericCatalogTag ==
    <<"F","i","c","t","i","o","n"," ","i","n"," ","E","n","g","l","i","s",
      "h",","," ","1","9","0","0","-"," ","T","e","x","t","s">>

\* "science fiction"
WordScienceFiction ==
    <<"s","c","i","e","n","c","e"," ","f","i","c","t","i","o","n">>

\* "science-fiction"
WordScienceHyphenFiction ==
    <<"s","c","i","e","n","c","e","-","f","i","c","t","i","o","n">>

\* "fiction"
WordFiction ==
    <<"f","i","c","t","i","o","n">>

\* "space opera"
WordSpaceOpera ==
    <<"s","p","a","c","e"," ","o","p","e","r","a">>

\* "general"
WordGeneral ==
    <<"g","e","n","e","r","a","l">>

\* "Galactic empire"
GalacticEmpire ==
    <<"G","a","l","a","c","t","i","c"," ","e","m","p","i","r","e">>

\* "galactic empire"
GalacticEmpireLower ==
    <<"g","a","l","a","c","t","i","c"," ","e","m","p","i","r","e">>

\* "NYT: Star Wars"
NytStarWars ==
    <<"N","Y","T",":"," ","S","t","a","r"," ","W","a","r","s">>

\* "Space Opera"
SpaceOpera ==
    <<"S","p","a","c","e"," ","O","p","e","r","a">>

\* "Interstellar warfare"
InterstellarWarfare ==
    <<"I","n","t","e","r","s","t","e","l","l","a","r"," ","w","a","r","f",
      "a","r","e">>

\* "Star Wars: Thrawn"
StarWarsThrawn ==
    <<"S","t","a","r"," ","W","a","r","s",":"," ","T","h","r","a","w","n">>

\* "Dune"
Dune ==
    <<"D","u","n","e">>

\* "FICTION IN ENGLISH, 1900- TEXTS"
GenericCatalogTagUpper ==
    <<"F","I","C","T","I","O","N"," ","I","N"," ","E","N","G","L","I","S",
      "H",","," ","1","9","0","0","-"," ","T","E","X","T","S">>

\* "fiction in english, 1900- texts"
GenericCatalogTagLower ==
    <<"f","i","c","t","i","o","n"," ","i","n"," ","e","n","g","l","i","s",
      "h",","," ","1","9","0","0","-"," ","t","e","x","t","s">>

\* "fICTION IN eNGLISH, 1900- tEXTS"
GenericCatalogTagSwapped ==
    <<"f","I","C","T","I","O","N"," ","I","N"," ","e","N","G","L","I","S",
      "H",","," ","1","9","0","0","-"," ","t","E","X","T","S">>

\* "Science Fiction"
ScienceFictionTag ==
    <<"S","c","i","e","n","c","e"," ","F","i","c","t","i","o","n">>

\* "Science-Fiction"
ScienceHyphenFictionTag ==
    <<"S","c","i","e","n","c","e","-","F","i","c","t","i","o","n">>

\* "Fiction"
FictionTag ==
    <<"F","i","c","t","i","o","n">>

\* "General"
GeneralTag ==
    <<"G","e","n","e","r","a","l">>

\* ", "
CommaSpace ==
    <<","," ">>

\* " "
Space ==
    <<" ">>

\* "(Fictitious character)"
FictitiousCharacterTag ==
    <<"(","F","i","c","t","i","t","i","o","u","s"," ","c","h","a","r","a",
      "c","t","e","r",")">>

\* "(Imaginary Place)"
ImaginaryPlaceTag ==
    <<"(","I","m","a","g","i","n","a","r","y"," ","P","l","a","c","e",")">>

\* "NYT:"
NytTag ==
    <<"N","Y","T",":">>

\* "New York Times"
NewYorkTimesTag ==
    <<"N","e","w"," ","Y","o","r","k"," ","T","i","m","e","s">>

\* "Hugo Award"
HugoAwardTag ==
    <<"H","u","g","o"," ","A","w","a","r","d">>

\* "hugo_award"
HugoUnderscoreTag ==
    <<"h","u","g","o","_","a","w","a","r","d">>

\* "Award:"
AwardTag ==
    <<"A","w","a","r","d",":">>

\* "Fic"
Fic ==
    <<"F","i","c">>

\* "tion"
Tion ==
    <<"t","i","o","n">>

----------------------------------------------------------------------------
(* Python string operations.                                               *)

UpperChars ==
    <<"A","B","C","D","E","F","G","H","I","J","K","L","M","N","O","P","Q",
      "R","S","T","U","V","W","X","Y","Z">>

LowerChars ==
    <<"a","b","c","d","e","f","g","h","i","j","k","l","m","n","o","p","q",
      "r","s","t","u","v","w","x","y","z">>

\* the grave accent, which a TLA+ string cannot hold, under a name of its own
GraveAccent ==
    "GRAVE"

\* string.punctuation
Punctuation ==
    {"!","\"","#","$","%","&","'","(",")","*","+",",","-",".","/",":",";",
     "<","=",">","?","@","[","\\","]","^","_",GraveAccent,"{","|","}","~"}

\* the ASCII characters str.strip() removes when called without arguments
Whitespace ==
    {" ","\t","\n","\r","\f"}

LowerChar(c) ==
    IF \E n \in 1..Len(UpperChars) : UpperChars[n] = c
    THEN LowerChars[CHOOSE n \in 1..Len(UpperChars) : UpperChars[n] = c]
    ELSE c

\* str.lower()
Lower(s) ==
    [n \in 1..Len(s) |-> LowerChar(s[n])]

\* whether w occurs in s at 1-based position n
OccursAt(w, s, n) ==
    /\ n + Len(w) - 1 <= Len(s)
    /\ \A k \in 1..Len(w) : s[n + k - 1] = w[k]

\* the Python expression  w in s
Contains(w, s) ==
    \E n \in 1..(Len(s) + 1) : OccursAt(w, s, n)

\* s.replace(w, empty): the non-overlapping occurrences of the non-empty w,
\* found scanning from the left, are deleted in one pass
RECURSIVE ReplaceFrom(_, _, _)
ReplaceFrom(s, w, n) ==
    IF n > Len(s) THEN <<>>
    ELSE IF OccursAt(w, s, n) THEN ReplaceFrom(s, w, n + Len(w))
    ELSE <<s[n]>> \o ReplaceFrom(s, w, n + 1)

StrReplace(s, w) ==
    ReplaceFrom(s, w, 1)

\* s.translate(...): every character of string.punctuation is deleted
TranslatePunctuation(s) ==
    SelectSeq(s, LAMBDA c : c \notin Punctuation)

\* s.strip()
Strip(s) ==
    LET keep == {n \in 1..Len(s) : s[n] \notin Whitespace}
    IN  IF keep = {} THEN <<>>
        ELSE SubSeq(s, CHOOSE n \in keep : \A j \in keep : n <= j,
                       CHOOSE n \in keep : \A j \in keep : j <= n)

\* dict.get(key, default)
Get(book, key, default) ==
    IF key \in DOMAIN book THEN book[key] ELSE default

----------------------------------------------------------------------------
(* should_remove_subject and filter_subjects.                              *)

\* the list the loop of should_remove_subject walks, in its order
GenericWords ==
    <<WordScienceFiction, WordScienceHyphenFiction, WordFiction,
      WordSpaceOpera, WordGeneral>>

\* the early returns of should_remove_subject; the last test looks for the
\* mixed-case literal in the lowercased subject, as the source does
MatchesRemovalMarker(subject_lower) ==
    \/ Contains(FictitiousCharacterMarker, subject_lower)
    \/ Contains(ImaginaryPlaceMarker, subject_lower)
    \/ Contains(NytMarker, subject_lower)
    \/ Contains(NewYorkTimesMarker, subject_lower)
    \/ Contains(HugoAwardMarker, subject_lower)
    \/ Contains(HugoUnderscoreMarker, subject_lower)
    \/ Contains(AwardMarker, subject_lower)
    \/ Contains(GenericCatalogTag, subject_lower)

\* for word in [...]: s = s.replace(word, "")
RECURSIVE RemoveKeyWords(_, _)
RemoveKeyWords(s, k) ==
    IF k > Len(GenericWords) THEN s
    ELSE RemoveKeyWords(StrReplace(s, GenericWords[k]), k + 1)

\* GenericResidue with the punctuation deleted before the key words are
GenericResiduePunctuationFirst(subject_lower) ==
    Strip(RemoveKeyWords(TranslatePunctuation(subject_lower), 1))

\* what is left of the lowercased subject when the final test is made
GenericResidue(subject_lower) ==
    Strip(TranslatePunctuation(RemoveKeyWords(subject_lower, 1)))

should_remove_subject(subject) ==
    LET subject_lower == Lower(subject)
    IN  \/ MatchesRemovalMarker(subject_lower)
        \/ GenericResidue(subject_lower) = <<>>

filter_subjects(book) ==
    SelectSeq(Get(book, "subject", <<>>),
              LAMBDA subject : ~should_remove_subject(subject))

----------------------------------------------------------------------------
(* is_star_wars_book and analyze_subjects.                                 *)

\* is_star_wars_book looking at the subjects filter_subjects keeps
is_star_wars_book_filtered(book) ==
    LET title    == Lower(Get(book, "title", <<>>))
        raw      == filter_subjects(book)
        subjects == [k \in 1..Len(raw) |-> Lower(raw[k])]
    IN  \/ Contains(STAR_WARS_KEYWORD, title)
        \/ \E k \in 1..Len(subjects) : Contains(STAR_WARS_KEYWORD, subjects[k])

is_star_wars_book(book) ==
    LET title    == Lower(Get(book, "title", <<>>))
        raw      == Get(book, "subject", <<>>)
        subjects == [k \in 1..Len(raw) |-> Lower(raw[k])]
    IN  \/ Contains(STAR_WARS_KEYWORD, title)
        \/ \E k \in 1..Len(subjects) : Contains(STAR_WARS_KEYWORD, subjects[k])

\* the test written as  "if year is None: continue"
YearIsNotNone(book) ==
    "first_publish_year" \in DOMAIN book

\* the test  "if not year: continue"  negated: book.get("first_publish_year")
\* is None for a missing key, and None and 0 are the falsy values of the field
YearIsTruthy(book) ==
    /\ "first_publish_year" \in DOMAIN book
    /\ book["first_publish_year"] # 0

\* the count below which a subject is left out of the result
MinCount ==
    3

\* Accumulate with the key looked up in lower case
AccumulateIgnoringCase(table, subject, year) ==
    IF \E k \in 1..Len(table) :
          Lower(table[k].subject) = Lower(subject)
    THEN [k \in 1..Len(table) |->
            IF Lower(table[k].subject) = Lower(subject)
            THEN [subject |-> table[k].subject,
                  count   |-> table[k].count + 1,
                  years   |-> Append(table[k].years, year)]
            ELSE table[k]]
    ELSE Append(table,
                [subject |-> subject, count |-> 1, years |-> <<year>>])

\* A dict is a sequence of entries with pairwise different keys, in insertion
\* order.  subject_data[subject]["count"] += 1 and ["years"].append(year); the
\* defaultdict inserts a fresh entry when the key, compared as a Python
\* string, is not there yet.
Accumulate(table, subject, year) ==
    IF \E k \in 1..Len(table) : table[k].subject = subject
    THEN [k \in 1..Len(table) |->
            IF table[k].subject = subject
            THEN [subject |-> subject,
                  count   |-> table[k].count + 1,
                  years   |-> Append(table[k].years, year)]
            ELSE table[k]]
    ELSE Append(table,
                [subject |-> subject, count |-> 1, years |-> <<year>>])

\* for subject in filtered_subjects: ...
RECURSIVE AccumulateAll(_, _, _, _)
AccumulateAll(table, filtered_subjects, k, year) ==
    IF k > Len(filtered_subjects) THEN table
    ELSE AccumulateAll(Accumulate(table, filtered_subjects[k], year),
                       filtered_subjects, k + 1, year)

\* AccumulateBook passing each of the book's subjects once, however often
\* the book lists it
AccumulateBookOncePerSubject(table, book) ==
    IF ~YearIsTruthy(book) THEN table
    ELSE LET kept  == filter_subjects(book)
             first == {k \in 1..Len(kept) : \A j \in 1..(k - 1) : kept[j] # kept[k]}
             once  == [k \in 1..Len(kept) |-> IF k \in first THEN kept[k] ELSE <<>>]
         IN  AccumulateAll(table,
                           SelectSeq(once, LAMBDA s : s # <<>>), 1,
                           book["first_publish_year"])

\* the body of  "for book in books"  in analyze_subjects
AccumulateBook(table, book) ==
    IF ~YearIsTruthy(book) THEN table
    ELSE AccumulateAll(table, filter_subjects(book), 1,
                       book["first_publish_year"])

\* min(years) and max(years) of a non-empty list
Min(years) ==
    CHOOSE y \in {years[k] : k \in 1..Len(years)} :
        \A k \in 1..Len(years) : y <= years[k]

Max(years) ==
    CHOOSE y \in {years[k] : k \in 1..Len(years)} :
        \A k \in 1..Len(years) : y >= years[k]

\* (min(years) + max(years)) / 2.0: the sum of two ints halved is a float
\* held exactly, here as its whole part and whether a half is added
HalfOf(n) ==
    [whole |-> (n - (n % 2)) \div 2, half |-> n % 2]

RECURSIVE SumOf(_)
SumOf(years) ==
    IF years = <<>> THEN 0 ELSE Head(years) + SumOf(Tail(years))

\* SubjectStat with avg_year the mean of all the years, rounded down
SubjectStatMean(data) ==
    [subject  |-> data.subject,
     count    |-> data.count,
     min_year |-> Min(data.years),
     max_year |-> Max(data.years),
     avg_year |-> [whole |-> SumOf(data.years) \div Len(data.years), half |-> 0]]

\* one item of the result dict
SubjectStat(data) ==
    [subject  |-> data.subject,
     count    |-> data.count,
     min_year |-> Min(data.years),
     max_year |-> Max(data.years),
     avg_year |-> HalfOf(Min(data.years) + Max(data.years))]

\* BuildResult with the test  count > 3
BuildResultAboveThreshold(table) ==
    LET kept == SelectSeq(table, LAMBDA data : data.count > MinCount)
    IN  [k \in 1..Len(kept) |->
           [subject  |-> kept[k].subject,
            count    |-> kept[k].count,
            min_year |-> Min(kept[k].years),
            max_year |-> Max(kept[k].years),
            avg_year |-> HalfOf(Min(kept[k].years) + Max(kept[k].years))]]

\* the loop that builds result: the entries with count >= 3, in dict order
BuildResult(table) ==
    LET kept == SelectSeq(table, LAMBDA data : data.count >= MinCount)
    IN  [k \in 1..Len(kept) |-> SubjectStat(kept[k])]

----------------------------------------------------------------------------
(* create_bar_chart.                                                       *)

\* the sort key x[1]["avg_year"], compared as floats
AvgLessEq(a, b) ==
    2 * a.avg_year.whole + a.avg_year.half <= 2 * b.avg_year.whole + b.avg_year.half

\* sorted(result.items(), key=...): stable, ascending
RECURSIVE SortedByAvgYear(_)
SortedByAvgYear(items) ==
    IF items = <<>> THEN <<>>
    ELSE LET rest  == SortedByAvgYear(SubSeq(items, 1, Len(items) - 1))
             last  == items[Len(items)]
             front == SelectSeq(rest, LAMBDA x : AvgLessEq(x, last))
             back  == SelectSeq(rest, LAMBDA x : ~AvgLessEq(x, last))
         IN  front \o <<last>> \o back

StarWarsFile ==
    "star_wars_subjects.png"

OtherFile ==
    "other_space_opera_subjects.png"

StarWarsTitle ==
    "Star Wars Books - Subject Trends Over Time"

OtherTitle ==
    "Non-Star Wars Space Opera Books - Subject Trends Over Time"

\* what plt.savefig writes: the bars, bottom to top, under the chart's title
Chart(sorted_subjects, title) ==
    [title |-> title,
     bars  |-> [k \in 1..Len(sorted_subjects) |->
                 [label |-> sorted_subjects[k].subject,
                  left  |-> sorted_subjects[k].min_year,
                  width |-> sorted_subjects[k].max_year - sorted_subjects[k].min_year,
                  count |-> sorted_subjects[k].count]]]

\* FilesAfterChart without the early return on an empty list
FilesAfterChartAlways(fs, result, title, filename) ==
    [f \in (DOMAIN fs) \cup {filename} |->
        IF f = filename THEN Chart(SortedByAvgYear(result), title) ELSE fs[f]]

\* the file system after create_bar_chart(result, title, filename)
FilesAfterChart(fs, result, title, filename) ==
    LET sorted_subjects == SortedByAvgYear(result)
    IN  IF sorted_subjects = <<>> THEN fs
        ELSE [f \in (DOMAIN fs) \cup {filename} |->
                IF f = filename THEN Chart(sorted_subjects, title) ELSE fs[f]]

\* ChartMessage with the test on the unsorted-list length off by one
ChartMessageSkipsSingle(result, title, filename) ==
    IF Len(result) <= 1
    THEN IF Len(result) = 0
         THEN [text |-> "Saved chart to", arg |-> filename]
         ELSE [text |-> "No subjects to plot for", arg |-> title]
    ELSE [text |-> "Saved chart to", arg |-> filename]

\* the line create_bar_chart prints
ChartMessage(result, title, filename) ==
    IF SortedByAvgYear(result) = <<>>
    THEN [text |-> "No subjects to plot for", arg |-> title]
    ELSE [text |-> "Saved chart to", arg |-> filename]

----------------------------------------------------------------------------
(* The inputs: the "docs" of the API response.                             *)

\* the most books a modelled response carries
MaxBooks ==
    3

\* Sample docs.  Between them: a title with and without the keyword and no
\* title at all; the keyword in a raw tag that the filter drops; a kept tag
\* in two spellings, alone, together and repeated within one doc; a dropped genre tag beside
\* a kept one, once and three times; no "subject" key; the year missing,
\* zero, and three values.
SampleDocs ==
    { [title |-> Dune, subject |-> <<GalacticEmpire>>, first_publish_year |-> 1977],
      [title |-> Dune, subject |-> <<GalacticEmpire>>, first_publish_year |-> 1980],
      [title |-> Dune, subject |-> <<GalacticEmpire>>, first_publish_year |-> 1983],
      [title |-> Dune, subject |-> <<GalacticEmpire>>, first_publish_year |-> 0],
      [title |-> Dune, subject |-> <<GalacticEmpire>>],
      [title |-> Dune, subject |-> <<GalacticEmpireLower>>, first_publish_year |-> 1977],
      [title |-> Dune, subject |-> <<GalacticEmpire, GalacticEmpire>>,
       first_publish_year |-> 1980],
      [title |-> Dune, subject |-> <<SpaceOpera, InterstellarWarfare>>,
       first_publish_year |-> 1983],
      [title |-> StarWarsThrawn, subject |-> <<GalacticEmpire>>,
       first_publish_year |-> 1977],
      [title |-> StarWarsThrawn, first_publish_year |-> 1980],
      [title |-> StarWarsThrawn,
       subject |-> <<GalacticEmpire, GalacticEmpire, GalacticEmpire>>,
       first_publish_year |-> 1983],
      [title |-> Dune, subject |-> <<GalacticEmpire, GalacticEmpireLower>>,
       first_publish_year |-> 1980],
      [subject |-> <<NytStarWars, GalacticEmpire>>, first_publish_year |-> 1983],
      [subject |-> <<>>, first_publish_year |-> 1977],
      [title |-> Dune,
       subject |-> <<SpaceOpera, SpaceOpera, SpaceOpera, GalacticEmpireLower>>,
       first_publish_year |-> 1977] }

RECURSIVE SeqsUpTo(_, _)
SeqsUpTo(S, n) ==
    IF n = 0 THEN {<<>>}
    ELSE LET shorter == SeqsUpTo(S, n - 1)
         IN  shorter \cup {Append(q, x) : q \in shorter, x \in S}

\* data.get("docs", []) of a response that raise_for_status lets through
Responses ==
    SeqsUpTo(SampleDocs, MaxBooks)

----------------------------------------------------------------------------
(* main as a state machine.                                                *)

NoFiles ==
    [f \in {} |-> <<>>]

Line(text, arg) ==
    [text |-> text, arg |-> arg]

MainInit ==
    /\ pc = "fetch"
    /\ books = <<>>
    /\ cursor = 1
    /\ star_wars_books = <<>>
    /\ other_books = <<>>
    /\ subject_data = <<>>
    /\ star_wars_subjects = <<>>
    /\ other_subjects = <<>>
    /\ files = NoFiles
    /\ stdout = <<Line("Fetching data from OpenLibrary...", 0)>>

Init ==
    /\ MainInit
    /\ arg_subject = <<>>
    /\ ret_removed = FALSE
    /\ ret_filtered = <<>>
    /\ fpc = "idle"

\* books = fetch_openlibrary_data(), the request answered with a 2xx status
Fetch ==
    /\ pc = "fetch"
    /\ \E docs \in Responses :
        /\ books' = docs
        /\ stdout' = Append(stdout, Line("Found books", Len(docs)))
    /\ pc' = "classify"
    /\ cursor' = 1
    /\ UNCHANGED <<star_wars_books, other_books, subject_data,
                   star_wars_subjects, other_subjects, files, filter_vars>>

\* requests.get or raise_for_status raises: the exception leaves main
FetchRaises ==
    /\ pc = "fetch"
    /\ pc' = "raised"
    /\ UNCHANGED <<books, cursor, star_wars_books, other_books, subject_data,
                   star_wars_subjects, other_subjects, files, stdout, filter_vars>>

\* one pass of  "for book in books"  in main
ClassifyBook ==
    /\ pc = "classify"
    /\ cursor <= Len(books)
    /\ IF is_star_wars_book(books[cursor])
       THEN /\ star_wars_books' = Append(star_wars_books, books[cursor])
            /\ UNCHANGED other_books
       ELSE /\ other_books' = Append(other_books, books[cursor])
            /\ UNCHANGED star_wars_books
    /\ cursor' = cursor + 1
    /\ UNCHANGED <<pc, books, subject_data, star_wars_subjects, other_subjects,
                   files, stdout, filter_vars>>

\* the loop is over: the two counts are printed and analyze_subjects is
\* entered for the Star Wars group
ClassifyDone ==
    /\ pc = "classify"
    /\ cursor > Len(books)
    /\ stdout' = stdout \o <<Line("Star Wars books", Len(star_wars_books)),
                             Line("Other books", Len(other_books)),
                             Line("Analyzing Star Wars books...", 0)>>
    /\ pc' = "analyze_star_wars"
    /\ cursor' = 1
    /\ subject_data' = <<>>
    /\ UNCHANGED <<books, star_wars_books, other_books, star_wars_subjects,
                   other_subjects, files, filter_vars>>

\* the argument of the running analyze_subjects call
Group ==
    IF pc = "analyze_star_wars" THEN star_wars_books ELSE other_books

\* one pass of  "for book in books"  in analyze_subjects
AnalyzeBook ==
    /\ pc \in {"analyze_star_wars", "analyze_other"}
    /\ cursor <= Len(Group)
    /\ subject_data' = AccumulateBook(subject_data, Group[cursor])
    /\ cursor' = cursor + 1
    /\ UNCHANGED <<pc, books, star_wars_books, other_books, star_wars_subjects,
                   other_subjects, files, stdout, filter_vars>>

\* analyze_subjects(star_wars_books) returns; analyze_subjects(other_books)
\* is entered
AnalyzeStarWarsDone ==
    /\ pc = "analyze_star_wars"
    /\ cursor > Len(star_wars_books)
    /\ star_wars_subjects' = BuildResult(subject_data)
    /\ stdout' = stdout \o <<Line("Found subjects", Len(BuildResult(subject_data))),
                             Line("Analyzing other books...", 0)>>
    /\ pc' = "analyze_other"
    /\ cursor' = 1
    /\ subject_data' = <<>>
    /\ UNCHANGED <<books, star_wars_books, other_books, other_subjects, files, filter_vars>>

\* analyze_subjects(other_books) returns
AnalyzeOtherDone ==
    /\ pc = "analyze_other"
    /\ cursor > Len(other_books)
    /\ other_subjects' = BuildResult(subject_data)
    /\ stdout' = stdout \o <<Line("Found subjects", Len(BuildResult(subject_data))),
                             Line("Generating charts...", 0)>>
    /\ pc' = "chart_star_wars"
    /\ UNCHANGED <<books, cursor, star_wars_books, other_books, subject_data,
                   star_wars_subjects, files, filter_vars>>

\* create_bar_chart(star_wars_subjects, ..., "star_wars_subjects.png")
ChartStarWars ==
    /\ pc = "chart_star_wars"
    /\ files' = FilesAfterChart(files, star_wars_subjects, StarWarsTitle, StarWarsFile)
    /\ stdout' = Append(stdout, ChartMessage(star_wars_subjects, StarWarsTitle, StarWarsFile))
    /\ pc' = "chart_other"
    /\ UNCHANGED <<books, cursor, star_wars_books, other_books, subject_data,
                   star_wars_subjects, other_subjects, filter_vars>>

\* create_bar_chart(other_subjects, ..., "other_space_opera_subjects.png")
\* and the closing print
ChartOther ==
    /\ pc = "chart_other"
    /\ files' = FilesAfterChart(files, other_subjects, OtherTitle, OtherFile)
    /\ stdout' = stdout \o <<ChartMessage(other_subjects, OtherTitle, OtherFile),
                             Line("Analysis complete!", 0)>>
    /\ pc' = "done"
    /\ UNCHANGED <<books, cursor, star_wars_books, other_books, subject_data,
                   star_wars_subjects, other_subjects, filter_vars>>

Next ==
    \/ Fetch
    \/ FetchRaises
    \/ ClassifyBook
    \/ ClassifyDone
    \/ AnalyzeBook
    \/ AnalyzeStarWarsDone
    \/ AnalyzeOtherDone
    \/ ChartStarWars
    \/ ChartOther

Spec ==
    Init /\ [][Next]_vars

----------------------------------------------------------------------------
(* The subject filter on its own: should_remove_subject and                *)
(* filter_subjects applied to subject tags put together from sample pieces. *)

\* the most pieces a sample subject tag is put together from
MaxPieces ==
    2

\* Pieces of subject tags, in the spellings a catalogue uses: the generic
\* genre words, the markers of the early returns, the generic catalog tag in
\* four capitalisations, punctuation and blanks, a tag that says something,
\* and two fragments that spell a genre word only when put side by side.
Pieces ==
    { ScienceFictionTag, ScienceHyphenFictionTag, FictionTag, SpaceOpera,
      GeneralTag, CommaSpace, Space, InterstellarWarfare,
      FictitiousCharacterTag, ImaginaryPlaceTag, NytTag, NewYorkTimesTag,
      HugoAwardTag, HugoUnderscoreTag, AwardTag,
      GenericCatalogTag, GenericCatalogTagUpper, GenericCatalogTagLower,
      GenericCatalogTagSwapped, Fic, Tion }

RECURSIVE Concat(_)
Concat(parts) ==
    IF parts = <<>> THEN <<>> ELSE Head(parts) \o Concat(Tail(parts))

SampleSubjects ==
    {Concat(parts) : parts \in SeqsUpTo(Pieces, MaxPieces)}

FilterInit ==
    /\ MainInit
    /\ arg_subject \in SampleSubjects
    /\ ret_removed = FALSE
    /\ ret_filtered = <<>>
    /\ fpc = "call"

\* removed = should_remove_subject(subject)
CallShouldRemoveSubject ==
    /\ fpc = "call"
    /\ ret_removed' = should_remove_subject(arg_subject)
    /\ fpc' = "filter"
    /\ UNCHANGED <<arg_subject, ret_filtered, main_vars>>

\* filtered = filter_subjects(book) for a book that lists the tag after
\* another one
CallFilterSubjects ==
    /\ fpc = "filter"
    /\ ret_filtered' = filter_subjects([subject |-> <<InterstellarWarfare, arg_subject>>])
    /\ fpc' = "returned"
    /\ UNCHANGED <<arg_subject, ret_removed, main_vars>>

FilterNext ==
    \/ CallShouldRemoveSubject
    \/ CallFilterSubjects

FilterSpec ==
    FilterInit /\ [][FilterNext]_vars

----------------------------------------------------------------------------
(* Vocabulary of the properties, stated without the operators above.       *)

\* phrase occurs in text
Occurs(text, phrase) ==
    \E k \in 0..(Len(text) - Len(phrase)) :
        SubSeq(text, k + 1, k + Len(phrase)) = phrase

\* text with every occurrence of phrase deleted, leftmost first
RECURSIVE DeleteOccurrences(_, _)
DeleteOccurrences(text, phrase) ==
    IF ~Occurs(text, phrase) THEN text
    ELSE LET k == CHOOSE j \in 0..(Len(text) - Len(phrase)) :
                    /\ SubSeq(text, j + 1, j + Len(phrase)) = phrase
                    /\ \A h \in 0..(j - 1) :
                          SubSeq(text, h + 1, h + Len(phrase)) # phrase
         IN  SubSeq(text, 1, k)
               \o DeleteOccurrences(SubSeq(text, k + Len(phrase) + 1, Len(text)),
                                    phrase)

RECURSIVE DeletePunctuation(_)
DeletePunctuation(text) ==
    IF text = <<>> THEN <<>>
    ELSE IF Head(text) \in Punctuation THEN DeletePunctuation(Tail(text))
    ELSE <<Head(text)>> \o DeletePunctuation(Tail(text))

RECURSIVE Trim(_)
Trim(text) ==
    IF text = <<>> THEN <<>>
    ELSE IF Head(text) \in Whitespace THEN Trim(Tail(text))
    ELSE IF text[Len(text)] \in Whitespace
         THEN Trim(SubSeq(text, 1, Len(text) - 1))
    ELSE text

\* rules 1-5 of the subject filter as the specification words them
MatchesRules1To5(tag) ==
    LET low == Lower(tag)
    IN  \/ Occurs(low, FictitiousCharacterMarker)
        \/ Occurs(low, ImaginaryPlaceMarker)
        \/ Occurs(low, NytMarker)
        \/ Occurs(low, NewYorkTimesMarker)
        \/ Occurs(low, HugoAwardMarker)
        \/ Occurs(low, HugoUnderscoreMarker)
        \/ Occurs(low, AwardMarker)
        \/ low = Lower(GenericCatalogTag)

\* rule 6: the five phrases go, in this order, then the punctuation, then
\* the surrounding whitespace
SemanticResidue(tag) ==
    LET a == DeleteOccurrences(Lower(tag), WordScienceFiction)
        b == DeleteOccurrences(a, WordScienceHyphenFiction)
        c == DeleteOccurrences(b, WordFiction)
        d == DeleteOccurrences(c, WordSpaceOpera)
        e == DeleteOccurrences(d, WordGeneral)
    IN  Trim(DeletePunctuation(e))

Range(q) ==
    {q[k] : k \in 1..Len(q)}

----------------------------------------------------------------------------
(* The subject filter.                                                     *)

\* C2: should_remove_subject returns True for the generic catalog tag
\* "Fiction in English, 1900- Texts" in every capitalisation, and
\* filter_subjects does not keep it.  (Stated as claimed; the code violates
\* it.)
C2_GenericCatalogTagRemoved ==
    (fpc = "returned" /\ Lower(arg_subject) = Lower(GenericCatalogTag))
        => (ret_removed /\ arg_subject \notin Range(ret_filtered))

\* C10: a subject that matches none of rules 1-5 is removed exactly when
\* nothing is left of it after lowercasing, deleting the five genre phrases
\* in their order, then the punctuation, then the surrounding whitespace;
\* "Space Opera", the empty subject and a punctuation-only subject are
\* removed, "Interstellar warfare" is kept.
C10_ResidueRule ==
    fpc # "call" =>
        /\ ~MatchesRules1To5(arg_subject)
              => (ret_removed <=> SemanticResidue(arg_subject) = <<>>)
        /\ arg_subject \in {SpaceOpera, <<>>, CommaSpace} => ret_removed
        /\ arg_subject = InterstellarWarfare => ~ret_removed
        /\ fpc = "returned" /\ ~MatchesRules1To5(arg_subject)
              => (ret_removed <=> arg_subject \notin Range(ret_filtered))

\* a hyphenated genre word followed by punctuation has been judged: it is
\* removed only because the phrases go before the punctuation does
C10_Witness ==
    /\ fpc = "returned"
    /\ arg_subject = ScienceHyphenFictionTag \o CommaSpace
    /\ ret_removed
    /\ ret_filtered = <<InterstellarWarfare>>

----------------------------------------------------------------------------
(* The classifier.                                                         *)

\* the keyword occurs in the lowercased text
MentionsStarWars(text) ==
    Occurs(Lower(text), STAR_WARS_KEYWORD)

\* the keyword is in the title (no title: empty text) or in a raw tag
BelongsToStarWars(book) ==
    \/ "title" \in DOMAIN book /\ MentionsStarWars(book["title"])
    \/ /\ "subject" \in DOMAIN book
       /\ \E tag \in Range(book["subject"]) : MentionsStarWars(tag)

\* the books main has classified so far
Classified ==
    IF pc \in {"fetch", "raised"} THEN <<>>
    ELSE IF pc = "classify" THEN SubSeq(books, 1, cursor - 1)
    ELSE books

\* C1: the books classified so far are split between star_wars_books and
\* other_books, none lost, none twice, in their order, and a book is in the
\* Star Wars group exactly when "star wars" occurs in its lowercased title
\* or in one of its raw subject tags, dropped by the filter or not.
C1_Partition ==
    /\ star_wars_books = SelectSeq(Classified, BelongsToStarWars)
    /\ other_books = SelectSeq(Classified, LAMBDA book : ~BelongsToStarWars(book))
    /\ Len(star_wars_books) + Len(other_books) = Len(Classified)

\* three books are classified, both groups are filled, and a book without a
\* title sits in the Star Wars group on the strength of a tag that
\* should_remove_subject drops
C1_Witness ==
    /\ pc = "done"
    /\ Len(books) = 3
    /\ other_books # <<>>
    /\ \E k \in 1..Len(star_wars_books) :
          /\ "title" \notin DOMAIN star_wars_books[k]
          /\ \A tag \in Range(star_wars_books[k]["subject"]) :
                MentionsStarWars(tag) => should_remove_subject(tag)

----------------------------------------------------------------------------
(* The aggregator.                                                         *)

\* the results main holds, each with the group it was computed from
Analyzed ==
    IF pc = "analyze_other"
    THEN {<<star_wars_books, star_wars_subjects>>}
    ELSE IF pc \in {"chart_star_wars", "chart_other", "done"}
    THEN {<<star_wars_books, star_wars_subjects>>, <<other_books, other_subjects>>}
    ELSE {}

\* the book carries a first_publish_year
HasYear(book) ==
    "first_publish_year" \in DOMAIN book

\* the book carries a first_publish_year other than 0
HasNonZeroYear(book) ==
    HasYear(book) /\ book["first_publish_year"] # 0

\* the tags of the sample docs that should_remove_subject removes
DroppedSampleTags ==
    {tag \in UNION {Range(Get(doc, "subject", <<>>)) : doc \in SampleDocs} :
        should_remove_subject(tag)}

\* the subjects of the book after filtering
Filtered(book) ==
    SelectSeq(Get(book, "subject", <<>>), LAMBDA tag : tag \notin DroppedSampleTags)

\* how often tag stands in tags
Times(tags, tag) ==
    Cardinality({k \in 1..Len(tags) : tags[k] = tag})

\* the book counts as carrying a year: any year when zero_counts, a year
\* other than 0 otherwise
CarriesYear(book, zero_counts) ==
    IF zero_counts THEN HasYear(book) ELSE HasNonZeroYear(book)

\* the years the first n books of group give to tag, one per occurrence of
\* the tag among the book's filtered subjects, in order
RECURSIVE YearsGiven(_, _, _, _)
YearsGiven(group, n, tag, zero_counts) ==
    IF n = 0 THEN <<>>
    ELSE YearsGiven(group, n - 1, tag, zero_counts)
           \o (IF CarriesYear(group[n], zero_counts)
               THEN [k \in 1..Times(Filtered(group[n]), tag) |->
                       group[n]["first_publish_year"]]
               ELSE <<>>)

\* occurrences of tag among the filtered subjects of the books of group that
\* carry a year other than 0
OccurrenceCount(group, tag) ==
    Len(YearsGiven(group, Len(group), tag, FALSE))

\* every tag a book of group lists
RawTags(group) ==
    UNION {Range(Get(group[k], "subject", <<>>)) : k \in 1..Len(group)}

Keys(result) ==
    {result[k].subject : k \in 1..Len(result)}

\* the years accumulated for tag in the running analyze_subjects
YearsOf(data, tag) ==
    IF \E k \in 1..Len(data) : data[k].subject = tag
    THEN data[CHOOSE k \in 1..Len(data) : data[k].subject = tag].years
    ELSE <<>>

\* occurrences of tag in any capitalisation among the filtered subjects of
\* the first n books of group that carry a year other than 0
RECURSIVE OccurrencesIgnoringCase(_, _, _)
OccurrencesIgnoringCase(group, n, tag) ==
    IF n = 0 THEN 0
    ELSE OccurrencesIgnoringCase(group, n - 1, tag)
           + (IF HasNonZeroYear(group[n])
              THEN LET kept == Filtered(group[n])
                   IN  Cardinality({k \in 1..Len(kept) : Lower(kept[k]) = Lower(tag)})
              ELSE 0)

\* C3 as claimed: the count of a subject in a result is the number of
\* distinct books of the group that have a publication year and carry the
\* subject after filtering, also when a book lists the tag more than once.
C3_CountIsDistinctRecords ==
    \A a \in Analyzed : \A k \in 1..Len(a[2]) :
        a[2][k].count =
            Cardinality({j \in 1..Len(a[1]) :
                            /\ HasYear(a[1][j])
                            /\ a[2][k].subject \in Range(Filtered(a[1][j]))})

\* C3 amended: the count of a subject in a result is the number of
\* occurrences of the tag among the filtered subjects of the books of the
\* group whose year is present and not 0, a tag listed twice by one book
\* counting twice.
C3_CountIsOccurrences ==
    \A a \in Analyzed : \A k \in 1..Len(a[2]) :
        a[2][k].count = OccurrenceCount(a[1], a[2][k].subject)

\* a result holds a subject with count 3 though fewer than 3 books of its
\* group carry the tag
C3_Witness ==
    /\ pc = "done"
    /\ \E a \in Analyzed : \E k \in 1..Len(a[2]) :
          /\ a[2][k].count = 3
          /\ Cardinality({j \in 1..Len(a[1]) :
                 a[2][k].subject \in Range(Filtered(a[1][j]))}) = 2

\* C4 as claimed: subject keys are matched case-insensitively; tags that
\* differ only in letter case are summed toward the threshold under one
\* key, and no result holds two keys equal up to case.
C4_KeysMatchedIgnoringCase ==
    \A a \in Analyzed :
        /\ \A j, k \in 1..Len(a[2]) :
              Lower(a[2][j].subject) = Lower(a[2][k].subject) => j = k
        /\ \A tag \in RawTags(a[1]) :
              OccurrencesIgnoringCase(a[1], Len(a[1]), tag) >= MinCount
                  <=> \E key \in Keys(a[2]) : Lower(key) = Lower(tag)

\* C4 amended: subject keys are matched as exact strings; a spelling is a
\* key only when its own occurrences reach the threshold, its minimum and
\* maximum are years given to that very spelling, no two keys of a result
\* are the same string, and two keys may be equal up to case.
C4_KeysMatchedExactly ==
    \A a \in Analyzed :
        /\ \A j, k \in 1..Len(a[2]) :
              a[2][j].subject = a[2][k].subject => j = k
        /\ \A k \in 1..Len(a[2]) :
              LET own == YearsGiven(a[1], Len(a[1]), a[2][k].subject, FALSE)
              IN  /\ Len(own) >= MinCount
                  /\ a[2][k].min_year \in Range(own)
                  /\ a[2][k].max_year \in Range(own)

\* a result holds two keys that differ in letter case only
C4_Witness ==
    /\ pc = "done"
    /\ \E j, k \in 1..Len(other_subjects) :
          /\ j # k
          /\ Lower(other_subjects[j].subject) = Lower(other_subjects[k].subject)

\* C5 as claimed: a book adds to the statistics exactly when its
\* first_publish_year is present, whatever its value: each subject's years
\* are those of the books passed so far that carry a year.
C5_ContributesIffYearPresent ==
    pc \in {"analyze_star_wars", "analyze_other"} =>
        \A tag \in RawTags(Group) \cup Keys(subject_data) :
            YearsOf(subject_data, tag) = YearsGiven(Group, cursor - 1, tag, TRUE)

\* C5 amended: a book adds to the statistics exactly when its
\* first_publish_year is present and not 0: a book without a year or with
\* year 0 adds nothing, every other book adds its year to each subject
\* filter_subjects returns for it, once per occurrence, and the count of a
\* subject is the length of its year list.
C5_ContributesIffYearNonZero ==
    pc \in {"analyze_star_wars", "analyze_other"} =>
        /\ \A tag \in RawTags(Group) \cup Keys(subject_data) :
              YearsOf(subject_data, tag)
                  = YearsGiven(Group, cursor - 1, tag, FALSE)
        /\ \A k \in 1..Len(subject_data) :
              subject_data[k].count = Len(subject_data[k].years)

\* the loop has passed a tagged book without a year, a tagged book with
\* year 0 and a tagged book with a year, and holds the year of the last only
C5_Witness ==
    /\ pc = "analyze_other"
    /\ cursor = 4
    /\ ~HasYear(other_books[1]) /\ Filtered(other_books[1]) # <<>>
    /\ HasYear(other_books[2]) /\ ~HasNonZeroYear(other_books[2])
    /\ Filtered(other_books[2]) # <<>>
    /\ HasNonZeroYear(other_books[3])
    /\ Len(subject_data) = 1
    /\ subject_data[1].years = <<other_books[3]["first_publish_year"]>>

\* the tags that filter_subjects keeps for some book of group
KeptTags(group) ==
    UNION {Range(Filtered(group[k])) : k \in 1..Len(group)}

ContributedYears(group, tag) ==
    {group[k]["first_publish_year"] :
        k \in {j \in 1..Len(group) :
                  /\ HasNonZeroYear(group[j])
                  /\ tag \in Range(Filtered(group[j]))}}

\* the three books of the example: tagged "Galactic empire" and nothing
\* else, published 1977, 1980 and 1983
IsExampleGroup(group) ==
    /\ Len(group) = 3
    /\ \A k \in 1..3 : Get(group[k], "subject", <<>>) = <<GalacticEmpire>>
    /\ \A k \in 1..3 : HasYear(group[k])
    /\ {group[k]["first_publish_year"] : k \in 1..3} = {1977, 1980, 1983}

\* C7: for every subject of a result, min_year is the smallest and max_year
\* the largest year among the contributing books, min_year <= max_year, and
\* avg_year is their midpoint (2 * avg_year = min_year + max_year); three
\* books tagged "Galactic empire" with years 1977, 1980, 1983 give count 3,
\* min 1977, max 1983, avg 1980.
C7_YearRange ==
    \A a \in Analyzed :
        /\ \A k \in 1..Len(a[2]) :
              LET stat  == a[2][k]
                  years == ContributedYears(a[1], stat.subject)
              IN  /\ stat.min_year \in years
                  /\ stat.max_year \in years
                  /\ \A y \in years : stat.min_year <= y /\ y <= stat.max_year
                  /\ stat.min_year <= stat.max_year
                  /\ stat.avg_year.half \in {0, 1}
                  /\ 2 * stat.avg_year.whole + stat.avg_year.half
                        = stat.min_year + stat.max_year
        /\ IsExampleGroup(a[1])
              => a[2] = <<[subject  |-> GalacticEmpire,
                           count    |-> 3,
                           min_year |-> 1977,
                           max_year |-> 1983,
                           avg_year |-> [whole |-> 1980, half |-> 0]]>>

\* the example has run through the group of the other books
C7_Witness ==
    /\ pc = "done"
    /\ IsExampleGroup(other_books)
    /\ Len(other_subjects) = 1
    /\ other_subjects[1].avg_year = [whole |-> 1980, half |-> 0]

----------------------------------------------------------------------------
(* The charts.                                                             *)

\* C8 as claimed: a run whose fetch succeeds ends with exactly the two image
\* files written, whatever was fetched.
C8_AlwaysTwoFiles ==
    pc = "done" => DOMAIN files = {StarWarsFile, OtherFile}

\* C8 amended: a run whose fetch succeeds ends with star_wars_subjects.png
\* written exactly when the Star Wars result is not empty,
\* other_space_opera_subjects.png written exactly when the other result is
\* not empty, and no other file: two files at most, one per group that has
\* a subject reaching the threshold.
C8_OneFilePerNonEmptyResult ==
    pc = "done" =>
        /\ DOMAIN files \subseteq {StarWarsFile, OtherFile}
        /\ StarWarsFile \in DOMAIN files <=> star_wars_subjects # <<>>
        /\ OtherFile \in DOMAIN files <=> other_subjects # <<>>
        /\ \A f \in DOMAIN files :
              Len(files[f].bars)
                  = Len(IF f = StarWarsFile THEN star_wars_subjects ELSE other_subjects)

\* a run has ended with both files written
C8_Witness ==
    /\ pc = "done"
    /\ DOMAIN files = {StarWarsFile, OtherFile}

LastLine ==
    stdout[Len(stdout)]

\* C9: create_bar_chart called with an empty result writes no file, prints
\* that there are no subjects to plot and returns; main goes on to the other
\* chart and to "Analysis complete!"; only the fetch can end the run early.
C9_EmptyResultSkipsChart ==
    /\ pc = "chart_other" /\ star_wars_subjects = <<>>
          => /\ files = NoFiles
             /\ LastLine = Line("No subjects to plot for", StarWarsTitle)
    /\ pc = "done" /\ other_subjects = <<>>
          => /\ OtherFile \notin DOMAIN files
             /\ stdout[Len(stdout) - 1] = Line("No subjects to plot for", OtherTitle)
    /\ pc = "done" => LastLine = Line("Analysis complete!", 0)
    /\ pc \in {"chart_star_wars", "chart_other"} => ENABLED Next
    /\ pc = "raised" => books = <<>> /\ Len(stdout) = 1

\* a run has ended whose first chart was skipped and whose second chart was
\* written
C9_Witness ==
    /\ pc = "done"
    /\ star_wars_subjects = <<>>
    /\ DOMAIN files = {OtherFile}
    /\ Line("No subjects to plot for", StarWarsTitle) \in Range(stdout)
    /\ LastLine = Line("Analysis complete!", 0)

====
